---- MODULE Spec2Model ----
(***************************************************************************)
(* State-machine model of the shared-ui hooks and components of            *)
(* lmsilo-core:                                                            *)
(*   - useWebSocket  (src/shared-ui/src/hooks/useTheme.ts, lines 113-201)  *)
(*   - useApi        (src/shared-ui/src/hooks/useApi.ts,   lines 34-137)   *)
(*   - JobList       (src/unnamed/part_001)                                *)
(* Each component has its own specification (SpecWS, SpecApi, SpecJobs);   *)
(* the variables of the other components stay unchanged under it.          *)
(***************************************************************************)
EXTENDS Integers, FiniteSets, Sequences, TLC

(***************************************************************************)
(* Bounds of the model.                                                    *)
(***************************************************************************)
\* the option maxReconnectAttempts (default 5 in the source), kept small
maxReconnectAttempts == 2
\* WebSocket objects that may be alive (not yet CLOSED) at the same time
MaxSockets == 2
\* reconnect timers that may be pending at the same time
MaxTimers == 1
\* calls issued on one useApi instance
MaxCalls == 2
\* jobs in one poll response
MaxItems == 2
\* poll requests in flight at the same time
MaxPolls == 2

VARIABLES
    \* ---- useWebSocket ----
    reconnect,              \* option `reconnect` (fixed for one run of the hook)
    mounted,                \* "no" before the mount effect, "yes", "gone" after unmount
    status,                 \* useState status
    message,                \* useState message (<<>> is null)
    wsRef,                  \* wsRef.current: a socket id, 0 for null
    reconnectAttemptsRef,   \* reconnectAttemptsRef.current
    reconnectTimeoutRef,    \* reconnectTimeoutRef.current: a timer id, 0 for undefined
    sockets,                \* readyState of every WebSocket object the hook created
    timers,                 \* ids of the window.setTimeout timers still pending
    closing,                \* socket whose error event ran and whose close event
                            \* follows in the same browser task (0: none)
    planned,                \* sockets on which disconnect() has called close()
    \* ---- history of the useWebSocket run (observers, not read by the hook) ----
    lastOp,                 \* the operation that produced the current state
    lastFrame,              \* event.data of the last message event (<<>>: none yet)
    torn,                   \* disconnect() ran and the caller has not called connect() since
    retrying,               \* sockets a timer callback created that have not opened yet
    failedRetries,          \* reconnect attempts (sockets of `retrying`) that failed in a
                            \* row since the last open event or connect() of the caller
    \* ---- useApi ----
    data,                   \* useState data (None is null)
    apiError,               \* useState error (None is null)
    apiLoading,             \* useState loading
    issued,                 \* number of calls issued so far; a call's id is its rank
    inflight,               \* calls whose promise has not settled: [id, verb]
    apiLast,                \* history: the call that settled last and its response,
                            \* None after reset()
    apiOp,                  \* history: the operation that produced the current state
    atReset,                \* history: the calls that were in flight when reset()
                            \* last ran
    \* ---- JobList ----
    jobs,                   \* useState jobs
    jobsLoading,            \* useState loading
    jobsError,              \* useState error (None is null)
    polls,                  \* fetchJobs calls awaiting their response (current props)
    stalePolls,             \* such calls issued before the last change of props or
                            \* before the unmount
    autoRefresh,            \* prop autoRefresh
    interval,               \* the setInterval of the effect is running
    jobsMounted,            \* "no" before the effect, "yes", "gone" after unmount
    \* ---- one set of updates delivered to two clients in opposite orders ----
    updates,                \* the updates: poll responses and push frames
    clientA,                \* the client that receives them first to last
    clientB,                \* the client that receives them last to first
    appliedA,               \* number of updates clientA has received
    appliedB,               \* number of updates clientB has received
    \* ---- status classification: getStatusConfig (JobQueue), StatusBadge ----
    rawStatus,              \* the status string of the item that is rendered
    queueConfig,            \* what getStatusConfig(status) returned (None: not called)
    badgeConfig,            \* the config StatusBadge chose (None: not rendered)
    \* ---- useLocalStorage ----
    lsItem,                 \* localStorage under the key (None: the key is absent)
    initialValue,           \* argument initialValue
    storedValue,            \* useState storedValue
    lsMounted,              \* the hook is mounted
    writePending,           \* the write effect is due (render committed, effect not run)
    removed,                \* history: removeValue() ran, and no setValue() since
    beforeMount,            \* history: the value when the hook was last unmounted and
                            \* no setValue()/removeValue() since (None: no such)
    \* ---- useTheme (cookie) ----
    documentCookie,         \* document.cookie: the cookies, as [name, value] pairs
    prefersDark,            \* matchMedia('(prefers-color-scheme: dark)').matches
    isDark,                 \* useState isDark
    rootDark,               \* document.documentElement has the class 'dark'
    themePhase,             \* "unmounted", "mounted" (first render committed, effects
                            \* due), "syncing" (re-render committed, sync effect due),
                            \* "settled"
    cookieAtMount,          \* history: getCookie at the last mount (None: undefined)
    darkBeforeReload,       \* history: isDark at the last reload, no toggle since
    \* ---- portal App (localStorage) ----
    portalItem,             \* localStorage 'lmsilo-theme' (None: absent)
    portalIsDark,           \* useState isDark
    portalRootDark,         \* document.documentElement has the class 'dark'
    portalPhase,            \* "unmounted", "mounted" (init effect due), "ready"
    portalBeforeReload      \* history: isDark at the last reload, no toggle since

wsVars == <<reconnect, mounted, status, message, wsRef, reconnectAttemptsRef,
            reconnectTimeoutRef, sockets, timers, closing, planned,
            lastOp, lastFrame, torn, retrying, failedRetries>>

apiVars == <<data, apiError, apiLoading, issued, inflight, apiLast, apiOp, atReset>>

jobVars == <<jobs, jobsLoading, jobsError, polls, stalePolls, autoRefresh,
             interval, jobsMounted>>

orderVars == <<updates, clientA, clientB, appliedA, appliedB>>

statusVars == <<rawStatus, queueConfig, badgeConfig>>

storageVars == <<lsItem, initialValue, storedValue, lsMounted, writePending,
                 removed, beforeMount>>

themeVars == <<documentCookie, prefersDark, isDark, rootDark, themePhase,
               cookieAtMount, darkBeforeReload,
               portalItem, portalIsDark, portalRootDark, portalPhase,
               portalBeforeReload>>

uiVars == <<statusVars, storageVars, themeVars>>

coreVars == <<wsVars, apiVars, jobVars, orderVars>>

vars == <<wsVars, apiVars, jobVars, orderVars, uiVars>>

SocketIds == 1..MaxSockets
TimerIds  == 1..MaxTimers

Null == <<>>

\* a nullable value: None is null, Some(v) a value
None == {}
Some(v) == {v}

(***************************************************************************)
(* Push frames (event.data) and JSON.parse.  A frame is the text on the     *)
(* wire; JSONParse gives the value the text decodes to, where it decodes.  *)
(***************************************************************************)
Frames == { <<"text", "J1", "processing">>,
            <<"text", "not json">> }

IsJSON(d) == Len(d) = 3

JSONParse(d) == [id |-> d[2], status |-> d[3]]

\* ws.onmessage that stores nothing when JSON.parse throws
onmessageParsedOnly(d) == IF IsJSON(d) THEN <<"object", JSONParse(d)>> ELSE Null

\* ws.onmessage: the parsed value, or the raw data when JSON.parse throws
onmessageValue(d) == IF IsJSON(d) THEN <<"object", JSONParse(d)>> ELSE d

(***************************************************************************)
(* The hook's refs and state as one record, so that connect() and          *)
(* disconnect() compose (the url effect runs one after the other).         *)
(***************************************************************************)
Hook == [status |-> status, wsRef |-> wsRef, sockets |-> sockets,
         attempts |-> reconnectAttemptsRef, timeoutRef |-> reconnectTimeoutRef,
         timers |-> timers, planned |-> planned]

SetHook(h) ==
    /\ status' = h.status
    /\ wsRef' = h.wsRef
    /\ sockets' = h.sockets
    /\ reconnectAttemptsRef' = h.attempts
    /\ reconnectTimeoutRef' = h.timeoutRef
    /\ timers' = h.timers
    /\ planned' = h.planned

\* a slot for `new WebSocket(url)`: one whose previous socket is CLOSED
FreeSlots(h) == {s \in SocketIds : h.sockets[s] = "CLOSED"}
NewSocket(h) == CHOOSE s \in FreeSlots(h) : \A o \in FreeSlots(h) : s <= o

\* an id for window.setTimeout: the browser never hands out an id again; the
\* ref is overwritten with the new id at once, so any id that is not pending
\* stands for a new one
FreeTimers(h) == TimerIds \ h.timers
NewTimer(h) == CHOOSE t \in FreeTimers(h) : \A o \in FreeTimers(h) : t <= o

\* connect(), line 131: the early return
AlreadyOpen(h) == h.wsRef # 0 /\ h.sockets[h.wsRef] = "OPEN"

\* connect(), lines 130-175.  throws: `new WebSocket(url)` throws
connect(h, throws) ==
    IF AlreadyOpen(h) THEN h
    ELSE IF throws THEN [h EXCEPT !.status = "error"]
    ELSE [h EXCEPT !.status = "connecting",
                   !.sockets = [@ EXCEPT ![NewSocket(h)] = "CONNECTING"],
                   !.wsRef = NewSocket(h)]

\* connect() can be modelled: it returns early, throws, or finds a slot
CanConnect(h, throws) == AlreadyOpen(h) \/ throws \/ FreeSlots(h) # {}

\* WebSocket.close(): a socket that is connecting or open starts closing
close(st) == IF st \in {"CONNECTING", "OPEN"} THEN "CLOSING" ELSE st

\* disconnect() that also clears the counter
disconnectResetsCounter(h) ==
    [h EXCEPT !.timers = IF h.timeoutRef # 0 THEN @ \ {h.timeoutRef} ELSE @,
              !.sockets = IF h.wsRef # 0
                          THEN [@ EXCEPT ![h.wsRef] = close(@)] ELSE @,
              !.planned = IF h.wsRef # 0 THEN @ \cup {h.wsRef} ELSE @,
              !.wsRef = 0,
              !.status = "disconnected",
              !.attempts = 0]

\* disconnect(), lines 177-186: clearTimeout of the timer the ref names,
\* close() of the current socket, wsRef.current = null, status disconnected
disconnect(h) ==
    [h EXCEPT !.timers = IF h.timeoutRef # 0 THEN @ \ {h.timeoutRef} ELSE @,
              !.sockets = IF h.wsRef # 0
                          THEN [@ EXCEPT ![h.wsRef] = close(@)] ELSE @,
              !.planned = IF h.wsRef # 0 THEN @ \cup {h.wsRef} ELSE @,
              !.wsRef = 0,
              !.status = "disconnected"]

\* the auto-reconnect condition with <= for <
shouldReconnectLeq(h) == reconnect /\ h.attempts <= maxReconnectAttempts

\* ws.onclose, line 165: the auto-reconnect condition
shouldReconnect(h) == reconnect /\ h.attempts < maxReconnectAttempts

\* ws.onclose that arms the timer and forgets to count the attempt
oncloseNoCount(h) ==
    LET d == [h EXCEPT !.status = "disconnected", !.wsRef = 0]
    IN  IF shouldReconnect(h)
        THEN [d EXCEPT !.timeoutRef = NewTimer(h),
                       !.timers = @ \cup {NewTimer(h)}]
        ELSE d

\* ws.onclose, lines 160-171
onclose(h) ==
    LET d == [h EXCEPT !.status = "disconnected", !.wsRef = 0]
    IN  IF shouldReconnect(h)
        THEN [d EXCEPT !.attempts = @ + 1,
                       !.timeoutRef = NewTimer(h),
                       !.timers = @ \cup {NewTimer(h)}]
        ELSE d

\* ws.onopen, lines 141-144
onopen(h) == [h EXCEPT !.status = "connected", !.attempts = 0]

\* ws.onerror, lines 156-158
onerror(h) == [h EXCEPT !.status = "error"]

(***************************************************************************)
(* useWebSocket: initial state and operations                              *)
(***************************************************************************)
InitWS ==
    /\ reconnect \in BOOLEAN
    /\ mounted = "no"
    /\ status = "disconnected"
    /\ message = Null
    /\ wsRef = 0
    /\ reconnectAttemptsRef = 0
    /\ reconnectTimeoutRef = 0
    /\ sockets = [s \in SocketIds |-> "CLOSED"]
    /\ timers = {}
    /\ closing = 0
    /\ planned = {}
    /\ lastOp = "init"
    /\ lastFrame = Null
    /\ torn = FALSE
    /\ retrying = {}
    /\ failedRetries = 0

\* the mount effect, lines 195-198: connect()
Mount ==
    /\ mounted = "no"
    /\ \E throws \in BOOLEAN :
        /\ CanConnect(Hook, throws)
        /\ SetHook(connect(Hook, throws))
    /\ mounted' = "yes"
    /\ lastOp' = "mount"
    /\ UNCHANGED <<apiVars, jobVars, orderVars, uiVars>>
    /\ UNCHANGED <<lastFrame, reconnect, message, closing, torn, retrying, failedRetries>>

\* the caller invokes the returned connect()
Connect ==
    /\ mounted = "yes" /\ closing = 0
    /\ \E throws \in BOOLEAN :
        /\ CanConnect(Hook, throws)
        /\ SetHook(connect(Hook, throws))
    /\ lastOp' = "connect"
    /\ torn' = FALSE
    /\ retrying' = {}
    /\ failedRetries' = 0
    /\ UNCHANGED <<apiVars, jobVars, orderVars, uiVars>>
    /\ UNCHANGED <<lastFrame, reconnect, mounted, message, closing>>

\* the caller invokes the returned disconnect()
Disconnect ==
    /\ mounted = "yes" /\ closing = 0
    /\ SetHook(disconnect(Hook))
    /\ lastOp' = "disconnect"
    /\ torn' = TRUE
    /\ UNCHANGED <<apiVars, jobVars, orderVars, uiVars>>
    /\ UNCHANGED <<lastFrame, reconnect, mounted, message, closing, retrying, failedRetries>>

\* url changes: the effect's cleanup runs disconnect(), then the effect connect()
UrlChange ==
    /\ mounted = "yes" /\ closing = 0
    /\ \E throws \in BOOLEAN :
        /\ CanConnect(disconnect(Hook), throws)
        /\ SetHook(connect(disconnect(Hook), throws))
    /\ lastOp' = "urlchange"
    /\ torn' = FALSE
    /\ retrying' = {}
    /\ failedRetries' = 0
    /\ UNCHANGED <<apiVars, jobVars, orderVars, uiVars>>
    /\ UNCHANGED <<lastFrame, reconnect, mounted, message, closing>>

\* unmount: the effect's cleanup runs disconnect()
Unmount ==
    /\ mounted = "yes" /\ closing = 0
    /\ SetHook(disconnect(Hook))
    /\ mounted' = "gone"
    /\ lastOp' = "unmount"
    /\ torn' = TRUE
    /\ UNCHANGED <<apiVars, jobVars, orderVars, uiVars>>
    /\ UNCHANGED <<lastFrame, reconnect, message, closing, retrying, failedRetries>>

\* send() that transmits unless the current socket is missing
sendUnlessNull(h) == IF h.wsRef # 0 THEN "sent" ELSE "dropped"

\* send(), lines 188-192: the payload goes on the wire when the current
\* socket is OPEN, and nothing happens otherwise
send(h) == IF AlreadyOpen(h) THEN "sent" ELSE "dropped"

\* the caller invokes the returned send()
Send ==
    /\ mounted = "yes" /\ closing = 0
    /\ lastOp' = send(Hook)
    /\ UNCHANGED <<apiVars, jobVars, orderVars, uiVars>>
    /\ UNCHANGED <<lastFrame, reconnect, mounted, status, message, wsRef, reconnectAttemptsRef,
                   reconnectTimeoutRef, sockets, timers, closing, planned,
                   torn, retrying, failedRetries>>

\* the timer callback of lines 167-169 runs: connect()
TimerFire(t) ==
    /\ closing = 0
    /\ t \in timers
    /\ \E throws \in BOOLEAN :
        LET h == [Hook EXCEPT !.timers = @ \ {t}]
        IN  /\ CanConnect(h, throws)
            /\ SetHook(connect(h, throws))
            /\ retrying' = IF AlreadyOpen(h) \/ throws THEN retrying
                           ELSE retrying \cup {NewSocket(h)}
    /\ lastOp' = "timer"
    /\ UNCHANGED <<apiVars, jobVars, orderVars, uiVars>>
    /\ UNCHANGED <<lastFrame, reconnect, mounted, message, closing, torn, failedRetries>>

\* the open event of socket s
OnOpen(s) ==
    /\ closing = 0
    /\ sockets[s] = "CONNECTING"
    /\ SetHook(onopen([Hook EXCEPT !.sockets = [@ EXCEPT ![s] = "OPEN"]]))
    /\ lastOp' = "open"
    /\ retrying' = retrying \ {s}
    /\ failedRetries' = 0
    /\ UNCHANGED <<apiVars, jobVars, orderVars, uiVars>>
    /\ UNCHANGED <<lastFrame, reconnect, mounted, message, closing, torn>>

\* a message event of socket s, lines 146-154
OnMessage(s, d) ==
    /\ closing = 0
    /\ sockets[s] = "OPEN"
    /\ message' = onmessageValue(d)
    /\ lastOp' = "message"
    /\ lastFrame' = d
    /\ UNCHANGED <<apiVars, jobVars, orderVars, uiVars>>
    /\ UNCHANGED <<reconnect, mounted, status, wsRef, reconnectAttemptsRef,
                   reconnectTimeoutRef, sockets, timers, closing, planned,
                   torn, retrying, failedRetries>>

\* the connection of socket s fails: readyState becomes CLOSED and the error
\* event runs; the close event follows in the same task
OnError(s) ==
    /\ closing = 0
    /\ sockets[s] \in {"CONNECTING", "OPEN", "CLOSING"}
    /\ SetHook(onerror([Hook EXCEPT !.sockets = [@ EXCEPT ![s] = "CLOSED"]]))
    /\ closing' = s
    /\ lastOp' = "error"
    /\ UNCHANGED <<apiVars, jobVars, orderVars, uiVars>>
    /\ UNCHANGED <<lastFrame, reconnect, mounted, message, torn, retrying, failedRetries>>

\* the close event of socket s: after its error event, or a clean close
OnClose(s) ==
    /\ \/ closing = s
       \/ closing = 0 /\ sockets[s] \in {"OPEN", "CLOSING"}
    /\ LET h == [Hook EXCEPT !.sockets = [@ EXCEPT ![s] = "CLOSED"],
                             !.planned = @ \ {s}]
       IN  /\ shouldReconnect(h) => FreeTimers(h) # {}
           /\ SetHook(onclose(h))
    /\ closing' = 0
    /\ lastOp' = IF s \in planned THEN "closePlanned" ELSE "close"
    /\ retrying' = retrying \ {s}
    /\ failedRetries' = IF s \in retrying /\ s \notin planned
                                /\ failedRetries < maxReconnectAttempts
                        THEN failedRetries + 1 ELSE failedRetries
    /\ UNCHANGED <<apiVars, jobVars, orderVars, uiVars>>
    /\ UNCHANGED <<lastFrame, reconnect, mounted, message, torn>>

NextWS ==
    \/ Mount
    \/ Connect
    \/ Disconnect
    \/ UrlChange
    \/ Unmount
    \/ Send
    \/ \E t \in TimerIds : TimerFire(t)
    \/ \E s \in SocketIds : OnOpen(s)
    \/ \E s \in SocketIds, d \in Frames : OnMessage(s, d)
    \/ \E s \in SocketIds : OnError(s)
    \/ \E s \in SocketIds : OnClose(s)


(***************************************************************************)
(* useApi                                                                  *)
(***************************************************************************)
Verbs == {"fetch", "post", "put", "del"}

CallIds == 1..MaxCalls

\* what the network may answer to call c: the promise of fetch() rejects, or
\* a response arrives.  `json`: for a success response, the content type is
\* application/json; for an error response, the body parses as JSON.  The
\* body names the call it answers.
HttpStatuses == {404, 500}

ApiResponses(c) ==
    { [kind |-> "network"] }
    \cup { [kind |-> "http", ok |-> TRUE, status |-> 200, json |-> j,
            body |-> [result |-> c.id]] : j \in BOOLEAN }
    \cup { [kind |-> "http", ok |-> FALSE, status |-> st, json |-> j,
            body |-> [error |-> "server_error", code |-> "ERR_SERVER",
                      message |-> <<"call", c.id>>]] :
            st \in HttpStatuses, j \in BOOLEAN }

\* the TypeError a rejected fetch() carries
NetworkError == [name |-> "TypeError", message |-> <<"Failed to fetch">>]

\* handleResponse, lines 41-56: [threw, value]
handleResponse(r) ==
    IF ~r.ok
    THEN [threw |-> TRUE,
          value |-> IF r.json THEN r.body
                    ELSE [error |-> "unknown_error", code |-> "ERR_UNKNOWN",
                          message |-> <<"HTTP", r.status>>]]
    ELSE IF r.json THEN [threw |-> FALSE, value |-> Some(r.body)]
    ELSE [threw |-> FALSE, value |-> None]

\* del, lines 112-119: the error thrown for a non-success response
delError(r) ==
    IF r.json THEN r.body
    ELSE [error |-> "delete_failed", code |-> "ERR_DELETE",
          message |-> <<"Delete failed">>]

\* the try block of a call: [threw, value] for fetchData (fetch, post, put:
\* lines 65-76) and for del (lines 106-121)
callOutcome(c, r) ==
    IF r.kind = "network" THEN [threw |-> TRUE, value |-> NetworkError]
    ELSE IF c.verb = "del"
         THEN IF r.ok THEN [threw |-> FALSE, value |-> None]
              ELSE [threw |-> TRUE, value |-> delError(r)]
         ELSE handleResponse(r)

\* what the promise of a call resolves to: the return statements of
\* fetchData (lines 76, 80) and of del (lines 121, 124)
returns(c, r) ==
    LET o == callOutcome(c, r)
    IN  IF c.verb = "del" THEN ~o.threw
        ELSE IF o.threw THEN None ELSE o.value

InitApi ==
    /\ data = None
    /\ apiError = None
    /\ apiLoading = FALSE
    /\ issued = 0
    /\ inflight = {}
    /\ apiLast = None
    /\ apiOp = "init"
    /\ atReset = {}

\* fetch/post/put/del is called: the statements before the first await
\* (lines 62-63, 103-104)
Issue(verb) ==
    /\ issued < MaxCalls
    /\ issued' = issued + 1
    /\ inflight' = inflight \cup {[id |-> issued + 1, verb |-> verb]}
    /\ apiLoading' = TRUE
    /\ apiError' = None
    /\ apiOp' = "issue"
    /\ UNCHANGED <<data, apiLast, atReset>>
    /\ UNCHANGED <<wsVars, jobVars, orderVars, uiVars>>

\* the stored state after call c settled with response r: try, catch and
\* finally of fetchData (lines 65-83) and of del (lines 106-127)
settle(c, r, now) ==
    LET o == callOutcome(c, r)
    IN  [now EXCEPT !.data = IF ~o.threw /\ c.verb # "del" THEN o.value ELSE @,
                    !.error = IF o.threw THEN Some(o.value) ELSE @,
                    !.loading = FALSE]

Stored == [data |-> data, error |-> apiError, loading |-> apiLoading, issued |-> issued]

\* the awaited response of call c arrives
Settle(c, r) ==
    /\ c \in inflight
    /\ r \in ApiResponses(c)
    /\ inflight' = inflight \ {c}
    /\ LET n == settle(c, r, Stored)
       IN  /\ data' = n.data
           /\ apiError' = n.error
           /\ apiLoading' = n.loading
    /\ apiLast' = Some([call |-> c, response |-> r])
    /\ apiOp' = "settle"
    /\ UNCHANGED <<issued, atReset>>
    /\ UNCHANGED <<wsVars, jobVars, orderVars, uiVars>>

\* reset() that also abandons the calls in flight
resetAborts(now) ==
    [now EXCEPT !.data = None, !.error = None, !.loading = FALSE, !.inflight = {}]

\* reset(), lines 130-134: the three setters; the calls in flight are not
\* touched
reset(now) == [now EXCEPT !.data = None, !.error = None, !.loading = FALSE]

\* the caller invokes the returned reset()
Reset ==
    /\ LET n == reset([data |-> data, error |-> apiError, loading |-> apiLoading,
                       inflight |-> inflight])
       IN  /\ data' = n.data
           /\ apiError' = n.error
           /\ apiLoading' = n.loading
           /\ inflight' = n.inflight
    /\ apiLast' = None
    /\ apiOp' = "reset"
    /\ atReset' = inflight
    /\ UNCHANGED issued
    /\ UNCHANGED <<wsVars, jobVars, orderVars, uiVars>>

Calls == [id : CallIds, verb : Verbs]

NextApi ==
    \/ \E verb \in Verbs : Issue(verb)
    \/ \E c \in Calls : \E r \in ApiResponses(c) : Settle(c, r)
    \/ Reset

(***************************************************************************)
(* JobList                                                                 *)
(***************************************************************************)
JobIds == {"J1", "J2"}

JobStatuses == {"processing", "completed"}

Job == [id : JobIds, status : JobStatuses]

\* the lists of jobs a response may carry
RECURSIVE SeqsUpTo(_, _)
SeqsUpTo(S, n) ==
    IF n = 0 THEN {<<>>}
    ELSE LET shorter == SeqsUpTo(S, n - 1)
         IN  shorter \cup {Append(l, x) : l \in {m \in shorter : Len(m) = n - 1}, x \in S}

JobLists == SeqsUpTo(Job, MaxItems)

\* what the network may answer to a poll: fetch() rejects, a non-success
\* status, a success whose body is a paginated object {items, total, ...},
\* or a success whose body is a bare array
JobResponses ==
    { [kind |-> "network"], [kind |-> "http", ok |-> FALSE] }
    \cup { [kind |-> "http", ok |-> TRUE,
            body |-> <<"object", [items |-> l, total |-> Len(l)]>>] : l \in JobLists }
    \cup { [kind |-> "http", ok |-> TRUE, body |-> <<"array", l>>] : l \in JobLists }

\* a reader of the response that knows the bare array only
itemsOrDataArrayOnly(body) == IF body[1] = "object" THEN <<>> ELSE body[2]

\* `data.items || data`, line 50 (an array, even an empty one, is truthy)
itemsOrData(body) == IF body[1] = "object" THEN body[2].items ELSE body[2]

\* fetchJobs that empties the list when the request fails
fetchJobsSettledClearing(r, now) ==
    IF r.kind = "network"
    THEN [now EXCEPT !.jobs = <<>>, !.error = Some("Failed to fetch"), !.loading = FALSE]
    ELSE IF ~r.ok
    THEN [now EXCEPT !.jobs = <<>>, !.error = Some("Failed to fetch jobs"),
                     !.loading = FALSE]
    ELSE [now EXCEPT !.jobs = itemsOrData(r.body), !.error = None, !.loading = FALSE]

\* fetchJobs after the await, lines 47-55
fetchJobsSettled(r, now) ==
    IF r.kind = "network"
    THEN [now EXCEPT !.error = Some("Failed to fetch"), !.loading = FALSE]
    ELSE IF ~r.ok
    THEN [now EXCEPT !.error = Some("Failed to fetch jobs"), !.loading = FALSE]
    ELSE [now EXCEPT !.jobs = itemsOrData(r.body), !.error = None, !.loading = FALSE]

InitJobs ==
    /\ jobs = <<>>
    /\ jobsLoading = TRUE
    /\ jobsError = None
    /\ polls = 0
    /\ stalePolls = 0
    /\ autoRefresh \in BOOLEAN
    /\ interval = FALSE
    /\ jobsMounted = "no"

\* fetchJobs up to the await, lines 42-46: one more request is in flight
CanPoll == polls + stalePolls < MaxPolls

\* the effect of lines 59-66 runs at mount
JobsMount ==
    /\ jobsMounted = "no"
    /\ CanPoll
    /\ jobsMounted' = "yes"
    /\ polls' = polls + 1
    /\ interval' = autoRefresh
    /\ UNCHANGED <<jobs, jobsLoading, jobsError, stalePolls, autoRefresh>>
    /\ UNCHANGED <<wsVars, apiVars, orderVars, uiVars>>

\* setInterval(fetchJobs, refreshInterval) ticks
IntervalTick ==
    /\ interval
    /\ CanPoll
    /\ polls' = polls + 1
    /\ UNCHANGED <<jobs, jobsLoading, jobsError, stalePolls, autoRefresh, interval,
                   jobsMounted>>
    /\ UNCHANGED <<wsVars, apiVars, orderVars, uiVars>>

\* the Refresh button (line 89) or the Retry button (line 80) is clicked
RefreshClick ==
    /\ jobsMounted = "yes"
    /\ ~jobsLoading
    /\ CanPoll
    /\ polls' = polls + 1
    /\ UNCHANGED <<jobs, jobsLoading, jobsError, stalePolls, autoRefresh, interval,
                   jobsMounted>>
    /\ UNCHANGED <<wsVars, apiVars, orderVars, uiVars>>

\* apiUrl, status, limit, autoRefresh or refreshInterval changes: the cleanup
\* clears the interval and the effect runs again
PropsChange(auto) ==
    /\ jobsMounted = "yes"
    /\ CanPoll
    /\ autoRefresh' = auto
    /\ stalePolls' = stalePolls + polls
    /\ polls' = 1
    /\ interval' = auto
    /\ UNCHANGED <<jobs, jobsLoading, jobsError, jobsMounted>>
    /\ UNCHANGED <<wsVars, apiVars, orderVars, uiVars>>

\* unmount: the cleanup clears the interval
JobsUnmount ==
    /\ jobsMounted = "yes"
    /\ jobsMounted' = "gone"
    /\ interval' = FALSE
    /\ stalePolls' = stalePolls + polls
    /\ polls' = 0
    /\ UNCHANGED <<jobs, jobsLoading, jobsError, autoRefresh>>
    /\ UNCHANGED <<wsVars, apiVars, orderVars, uiVars>>

JobsView == [jobs |-> jobs, error |-> jobsError, loading |-> jobsLoading]

\* the response of a request in flight arrives; stale: the request was issued
\* before the last change of props or before the unmount
PollSettle(stale, r) ==
    /\ IF stale THEN stalePolls > 0 ELSE polls > 0
    /\ stalePolls' = IF stale THEN stalePolls - 1 ELSE stalePolls
    /\ polls' = IF stale THEN polls ELSE polls - 1
    /\ LET n == fetchJobsSettled(r, JobsView)
       IN  /\ jobs' = n.jobs
           /\ jobsError' = n.error
           /\ jobsLoading' = n.loading
    /\ UNCHANGED <<autoRefresh, interval, jobsMounted>>
    /\ UNCHANGED <<wsVars, apiVars, orderVars, uiVars>>

\* the delete button of a listed job (lines 113-123): onDeleteClick(job) is
\* the parent's callback; the component's own state is not touched
DeleteClick(i) ==
    /\ jobsMounted = "yes"
    /\ ~jobsLoading /\ jobsError = None
    /\ i \in 1..Len(jobs)
    /\ UNCHANGED <<jobs, jobsLoading, jobsError, polls, stalePolls, autoRefresh,
                   interval, jobsMounted>>
    /\ UNCHANGED <<wsVars, apiVars, orderVars, uiVars>>

NextJobs ==
    \/ JobsMount
    \/ IntervalTick
    \/ RefreshClick
    \/ \E auto \in BOOLEAN : PropsChange(auto)
    \/ JobsUnmount
    \/ \E stale \in BOOLEAN, r \in JobResponses : PollSettle(stale, r)
    \/ \E i \in 1..MaxItems : DeleteClick(i)

(***************************************************************************)
(* Arrival order: the same updates reach two clients in opposite orders.   *)
(* A client is a JobList (poll channel) next to a useWebSocket (push       *)
(* channel), as the hooks are exported side by side.                       *)
(***************************************************************************)
\* an update is a poll response (a list, or a failure), or a push frame
Updates ==
    { <<"poll", r>> : r \in JobResponses }
    \cup { <<"push", d>> : d \in Frames }

\* a client after mount, before any update
NewClient == [jobs |-> <<>>, error |-> None, loading |-> TRUE, message |-> Null]

\* a client receives update u: fetchJobs settles (lines 47-55 of JobList), or
\* ws.onmessage runs (lines 146-154 of useWebSocket)
applyUpdate(u, c) ==
    IF u[1] = "poll"
    THEN LET n == fetchJobsSettled(u[2], [jobs |-> c.jobs, error |-> c.error,
                                          loading |-> c.loading])
         IN  [c EXCEPT !.jobs = n.jobs, !.error = n.error, !.loading = n.loading]
    ELSE [c EXCEPT !.message = onmessageValue(u[2])]

\* the sets of updates: two updates, in the order of clientA
InitOrder ==
    /\ updates \in Updates \X Updates
    /\ clientA = NewClient
    /\ clientB = NewClient
    /\ appliedA = 0
    /\ appliedB = 0

\* the arrival-order clients are not run
OrderIdle ==
    /\ updates = <<>>
    /\ clientA = NewClient
    /\ clientB = NewClient
    /\ appliedA = 0
    /\ appliedB = 0

\* clientA receives its next update, first to last
ArriveA ==
    /\ appliedA < Len(updates)
    /\ clientA' = applyUpdate(updates[appliedA + 1], clientA)
    /\ appliedA' = appliedA + 1
    /\ UNCHANGED <<updates, clientB, appliedB>>
    /\ UNCHANGED <<wsVars, apiVars, jobVars, uiVars>>

\* clientB receives its next update, last to first
ArriveB ==
    /\ appliedB < Len(updates)
    /\ clientB' = applyUpdate(updates[Len(updates) - appliedB], clientB)
    /\ appliedB' = appliedB + 1
    /\ UNCHANGED <<updates, clientA, appliedA>>
    /\ UNCHANGED <<wsVars, apiVars, jobVars, uiVars>>

NextOrder == ArriveA \/ ArriveB

(***************************************************************************)
(* Status classification: getStatusConfig of JobQueue.tsx (lines 188-226)  *)
(* and the statusConfig lookup of StatusBadge.tsx (lines 9-24).  A string  *)
(* is the sequence of its characters.                                      *)
(***************************************************************************)
LowerLetters == <<"a", "b", "c", "d", "e", "f", "g", "h", "i", "j", "k", "l", "m", "n", "o", "p", "q", "r", "s", "t", "u", "v", "w", "x", "y", "z">>
UpperLetters == <<"A", "B", "C", "D", "E", "F", "G", "H", "I", "J", "K", "L", "M", "N", "O", "P", "Q", "R", "S", "T", "U", "V", "W", "X", "Y", "Z">>

letterIndex(alphabet, c) == {i \in 1..Len(alphabet) : alphabet[i] = c}

\* String.prototype.toLowerCase, toUpperCase
toLowerCase(s) ==
    [i \in 1..Len(s) |->
        IF letterIndex(UpperLetters, s[i]) # {}
        THEN LowerLetters[CHOOSE k \in letterIndex(UpperLetters, s[i]) : TRUE]
        ELSE s[i]]

toUpperCase(s) ==
    [i \in 1..Len(s) |->
        IF letterIndex(LowerLetters, s[i]) # {}
        THEN UpperLetters[CHOOSE k \in letterIndex(LowerLetters, s[i]) : TRUE]
        ELSE s[i]]

\* the first character in upper case: 'Pending' for 'pending'
capitalize(s) == [i \in 1..Len(s) |-> IF i = 1 THEN toUpperCase(s)[1] ELSE s[i]]

\* the status words of the two components
Word ==
    [completed |-> <<"c", "o", "m", "p", "l", "e", "t", "e", "d">>,
     done |-> <<"d", "o", "n", "e">>,
     success |-> <<"s", "u", "c", "c", "e", "s", "s">>,
     failed |-> <<"f", "a", "i", "l", "e", "d">>,
     error |-> <<"e", "r", "r", "o", "r">>,
     processing |-> <<"p", "r", "o", "c", "e", "s", "s", "i", "n", "g">>,
     extracting |-> <<"e", "x", "t", "r", "a", "c", "t", "i", "n", "g">>,
     transcribing |-> <<"t", "r", "a", "n", "s", "c", "r", "i", "b", "i", "n", "g">>,
     detecting |-> <<"d", "e", "t", "e", "c", "t", "i", "n", "g">>,
     translating |-> <<"t", "r", "a", "n", "s", "l", "a", "t", "i", "n", "g">>,
     diarizing |-> <<"d", "i", "a", "r", "i", "z", "i", "n", "g">>,
     pending |-> <<"p", "e", "n", "d", "i", "n", "g">>,
     queued |-> <<"q", "u", "e", "u", "e", "d">>,
     cancelled |-> <<"c", "a", "n", "c", "e", "l", "l", "e", "d">>]

\* getStatusConfig, JobQueue.tsx lines 188-226 (the icon and the bar colour
\* stand for the returned config)
getStatusConfig(st) ==
    LET s == toLowerCase(st)
    IN  IF s \in {Word.completed, Word.done, Word.success}
        THEN [icon |-> "CheckCircle2", barColor |-> "bg-olive-500"]
        ELSE IF s \in {Word.failed, Word.error}
        THEN [icon |-> "XCircle", barColor |-> "bg-red-500"]
        ELSE IF s \in {Word.processing, Word.extracting, Word.transcribing,
                       Word.detecting, Word.translating, Word.diarizing}
        THEN [icon |-> "Loader2", barColor |-> "bg-olive-500"]
        ELSE [icon |-> "Clock", barColor |-> "bg-surface-300 dark:bg-surface-700"]

\* statusConfig, StatusBadge.tsx lines 9-18
statusConfig ==
    [k \in {Word.pending, Word.queued, Word.processing, Word.completed, Word.failed, Word.cancelled, Word.success, Word.error} |->
        CASE k = Word.pending -> [bg |-> "#fef3c7", text |-> "#92400e", label |-> capitalize(k)]
          [] k = Word.queued -> [bg |-> "#e0e7ff", text |-> "#3730a3", label |-> capitalize(k)]
          [] k = Word.processing -> [bg |-> "#dbeafe", text |-> "#1e40af", label |-> capitalize(k)]
          [] k = Word.completed -> [bg |-> "#dcfce7", text |-> "#166534", label |-> capitalize(k)]
          [] k = Word.failed -> [bg |-> "#fee2e2", text |-> "#dc2626", label |-> capitalize(k)]
          [] k = Word.cancelled -> [bg |-> "#f3f4f6", text |-> "#6b7280", label |-> capitalize(k)]
          [] k = Word.success -> [bg |-> "#dcfce7", text |-> "#166534", label |-> capitalize(k)]
          [] k = Word.error -> [bg |-> "#fee2e2", text |-> "#dc2626", label |-> capitalize(k)]]

\* StatusBadge, line 24: statusConfig[status] || {grey, label: status}
StatusBadge(st) ==
    IF st \in DOMAIN statusConfig THEN statusConfig[st]
    ELSE [bg |-> "#f3f4f6", text |-> "#6b7280", label |-> st]

\* QueueItemStatus (JobQueue.tsx lines 5-11), the synonyms getStatusConfig
\* lists, and the keys of statusConfig
KnownStatuses == {Word[w] : w \in DOMAIN Word}

\* the spellings of a known status: lower case, upper case, capitalized
Variants(w) == {w, toUpperCase(w), capitalize(w)}

\* status strings no component knows
UnknownStatuses ==
    { <<"p", "a", "u", "s", "e", "d">>,
      <<"i", "n", "_", "p", "r", "o", "g", "r", "e", "s", "s">>,
      <<"I", "N", "_", "P", "R", "O", "G", "R", "E", "S", "S">>,
      <<"u", "n", "k", "n", "o", "w", "n">>,
      <<>> }

StatusInputs == UNION {Variants(w) : w \in KnownStatuses} \cup UnknownStatuses

InitStatus ==
    /\ rawStatus \in StatusInputs
    /\ queueConfig = None
    /\ badgeConfig = None

\* the status components are not rendered
StatusIdle ==
    /\ rawStatus = <<>>
    /\ queueConfig = None
    /\ badgeConfig = None

\* a JobQueue item is rendered: getStatusConfig(item.status), line 84
RenderQueueItem ==
    /\ queueConfig = None
    /\ queueConfig' = Some(getStatusConfig(rawStatus))
    /\ UNCHANGED <<rawStatus, badgeConfig>>
    /\ UNCHANGED <<coreVars, storageVars, themeVars>>

\* a StatusBadge is rendered
RenderStatusBadge ==
    /\ badgeConfig = None
    /\ badgeConfig' = Some(StatusBadge(rawStatus))
    /\ UNCHANGED <<rawStatus, queueConfig>>
    /\ UNCHANGED <<coreVars, storageVars, themeVars>>

NextStatus == RenderQueueItem \/ RenderStatusBadge

(***************************************************************************)
(* useLocalStorage (src/shared-ui/src/hooks/useApi.ts, lines 149-191).     *)
(* A JavaScript value is [type, v]; a JSON text is a string.               *)
(***************************************************************************)
Undefined == [type |-> "undefined", v |-> ""]
JSNull    == [type |-> "null", v |-> ""]
JSNaN     == [type |-> "number", v |-> "NaN"]
JSNumber(n) == [type |-> "number", v |-> n]
JSString(s) == [type |-> "string", v |-> s]

\* the values the hook is used with
Values == {JSNull, JSNumber("0"), JSNumber("1"), JSString("a"), JSNaN, Undefined}

\* JSON.stringify(value): a text, or undefined for undefined; NaN encodes as
\* null, a string in double quotes
JSONstringify(x) ==
    CASE x.type = "undefined" -> Undefined
      [] x.type = "null" -> JSString("null")
      [] x.type = "number" -> IF x.v = "NaN" THEN JSString("null") ELSE JSString(x.v)
      [] x.type = "string" -> JSString(IF x.v = "a" THEN "\"a\"" ELSE "\"\"")

\* String(x) as setItem applies it to its second argument
toDOMString(x) == IF x.type = "undefined" THEN "undefined" ELSE x.v

\* the texts JSON.parse accepts, with the value each decodes to; on any other
\* text JSON.parse throws a SyntaxError
JSONDocuments ==
    [txt \in {"null", "0", "1", "\"a\"", "\"\""} |->
        CASE txt = "null" -> JSNull
          [] txt = "0" -> JSNumber("0")
          [] txt = "1" -> JSNumber("1")
          [] txt = "\"a\"" -> JSString("a")
          [] txt = "\"\"" -> JSString("")]

JSONparseThrows(txt) == txt \notin DOMAIN JSONDocuments

\* the items another page load may have left under the key
StoredItems == {"0", "1", "\"a\"", "null", "undefined", "not json", ""}

\* a lazy initializer that does not read the storage
readStoredValueIgnoring(item, init) == init

\* the lazy initializer of useState, lines 154-161: item ? JSON.parse(item) :
\* initialValue, and initialValue when that throws.  item: None for null
readStoredValue(item, init) ==
    IF item = None THEN init
    ELSE LET txt == CHOOSE x \in item : TRUE
         IN  IF txt = "" THEN init
             ELSE IF JSONparseThrows(txt) THEN init
             ELSE JSONDocuments[txt]

\* updater functions passed to setValue
Updaters == {"keep", "one"}

applyUpdater(f, prev) == IF f = "keep" THEN prev ELSE JSNumber("1")

InitStorage ==
    /\ lsItem \in {None} \cup {Some(i) : i \in StoredItems}
    /\ initialValue \in {JSNumber("0"), JSString("a")}
    /\ storedValue = Undefined
    /\ lsMounted = FALSE
    /\ writePending = FALSE
    /\ removed = FALSE
    /\ beforeMount = None

\* the hook is not used
StorageIdle ==
    /\ lsItem = None
    /\ initialValue = JSNumber("0")
    /\ storedValue = Undefined
    /\ lsMounted = FALSE
    /\ writePending = FALSE
    /\ removed = FALSE
    /\ beforeMount = None

\* the hook mounts: the lazy initializer runs; the write effect is due
LsMount ==
    /\ ~lsMounted
    /\ lsMounted' = TRUE
    /\ storedValue' = readStoredValue(lsItem, initialValue)
    /\ writePending' = TRUE
    /\ removed' = FALSE
    /\ UNCHANGED <<lsItem, initialValue, beforeMount>>
    /\ UNCHANGED <<coreVars, statusVars, themeVars>>

\* the write effect, lines 164-170: setItem(key, JSON.stringify(storedValue))
LsWriteEffect ==
    /\ lsMounted /\ writePending
    /\ lsItem' = Some(toDOMString(JSONstringify(storedValue)))
    /\ writePending' = FALSE
    /\ UNCHANGED <<initialValue, storedValue, lsMounted, removed, beforeMount>>
    /\ UNCHANGED <<coreVars, statusVars, themeVars>>

\* setValue(value), lines 173-178, with a direct value, called once the
\* effects of the last render have run; the effect is due when the state
\* changed
SetValue(x) ==
    /\ lsMounted /\ ~writePending
    /\ storedValue' = x
    /\ writePending' = (x # storedValue)
    /\ removed' = (removed /\ x = storedValue)
    /\ beforeMount' = None
    /\ UNCHANGED <<lsItem, initialValue, lsMounted>>
    /\ UNCHANGED <<coreVars, statusVars, themeVars>>

\* setValue(prev => ...), lines 173-178, with an updater function
SetValueWith(f) ==
    /\ lsMounted /\ ~writePending
    /\ storedValue' = applyUpdater(f, storedValue)
    /\ writePending' = (applyUpdater(f, storedValue) # storedValue)
    /\ removed' = (removed /\ applyUpdater(f, storedValue) = storedValue)
    /\ beforeMount' = None
    /\ UNCHANGED <<lsItem, initialValue, lsMounted>>
    /\ UNCHANGED <<coreVars, statusVars, themeVars>>

\* removeValue(), lines 181-188: removeItem(key), setStoredValue(initialValue)
RemoveValue ==
    /\ lsMounted /\ ~writePending
    /\ lsItem' = None
    /\ storedValue' = initialValue
    /\ writePending' = (storedValue # initialValue)
    /\ removed' = TRUE
    /\ beforeMount' = None
    /\ UNCHANGED <<initialValue, lsMounted>>
    /\ UNCHANGED <<coreVars, statusVars, themeVars>>

\* the page is left once the effects have run; the storage stays
LsUnmount ==
    /\ lsMounted /\ ~writePending
    /\ lsMounted' = FALSE
    /\ beforeMount' = Some(storedValue)
    /\ storedValue' = Undefined
    /\ removed' = FALSE
    /\ UNCHANGED <<lsItem, initialValue, writePending>>
    /\ UNCHANGED <<coreVars, statusVars, themeVars>>

NextStorage ==
    \/ LsMount
    \/ LsWriteEffect
    \/ \E x \in Values : SetValue(x)
    \/ \E f \in Updaters : SetValueWith(f)
    \/ RemoveValue
    \/ LsUnmount

(***************************************************************************)
(* useTheme (src/shared-ui/src/hooks/useTheme.ts, lines 10-73): dark mode  *)
(* kept in the cookie 'lmsilo-theme'.                                      *)
(***************************************************************************)
DARK_MODE_COOKIE == "lmsilo-theme"

\* getCookie(name), lines 13-19: `; ${document.cookie}`.split(`; ${name}=`)
\* has two parts when exactly one cookie has the name; the value is the second
\* part up to the next ';'.  None is undefined
getCookie(jar, name) ==
    LET at == {i \in 1..Len(jar) : jar[i].name = name}
    IN  IF Cardinality(at) = 1 THEN Some(jar[CHOOSE i \in at : TRUE].value) ELSE None

\* setCookie(name, value), lines 21-24: the browser replaces the cookie of
\* that name and path, or adds it
setCookie(jar, name, value) ==
    IF \E i \in 1..Len(jar) : jar[i].name = name
    THEN [i \in 1..Len(jar) |-> IF jar[i].name = name
                                THEN [name |-> name, value |-> value] ELSE jar[i]]
    ELSE Append(jar, [name |-> name, value |-> value])

\* an init effect that does not look at the system preference
initIsDarkCookieOnly(cookie, prefers, current) ==
    IF cookie # None /\ cookie # Some("") THEN cookie = Some("dark") ELSE current

\* the init effect, lines 34-42: isDark after it (a cookie that is undefined or
\* empty is falsy)
initIsDark(cookie, prefers, current) ==
    IF cookie # None /\ cookie # Some("") THEN cookie = Some("dark")
    ELSE IF prefers THEN TRUE
    ELSE current

\* the sync effect, lines 45-60: the class and the cookie follow isDark
syncCookie(jar, dark) == setCookie(jar, DARK_MODE_COOKIE, IF dark THEN "dark" ELSE "light")

\* the cookies the page may start with: none, another site cookie, or the
\* theme cookie; 'oatmeal' is the theme name of earlier versions
CookieJars ==
    { <<>>, <<[name |-> "sid", value |-> "1"]>> }
    \cup { <<[name |-> DARK_MODE_COOKIE, value |-> x]>> : x \in {"dark", "light", "oatmeal"} }

(***************************************************************************)
(* The portal App (src/portal/src/App.tsx, lines 4-20): dark mode kept in  *)
(* localStorage 'lmsilo-theme'.                                            *)
(***************************************************************************)
\* an init effect that always starts dark
portalInitAlwaysDark(stored) == TRUE

\* line 10: stored === 'dark' || (!stored && true)
portalInit(stored) == stored = Some("dark") \/ stored = None \/ stored = Some("")

InitTheme ==
    /\ documentCookie \in CookieJars
    /\ prefersDark \in BOOLEAN
    /\ isDark = FALSE
    /\ rootDark = FALSE
    /\ themePhase = "unmounted"
    /\ cookieAtMount = "n/a"
    /\ darkBeforeReload = None
    /\ portalItem \in {None, Some("dark"), Some("oatmeal")}
    /\ portalIsDark = TRUE
    /\ portalRootDark = FALSE
    /\ portalPhase = "unmounted"
    /\ portalBeforeReload = None

\* the theme components are not used
ThemeIdle ==
    /\ documentCookie = <<>>
    /\ prefersDark = FALSE
    /\ isDark = FALSE
    /\ rootDark = FALSE
    /\ themePhase = "unmounted"
    /\ cookieAtMount = "n/a"
    /\ darkBeforeReload = None
    /\ portalItem = None
    /\ portalIsDark = TRUE
    /\ portalRootDark = FALSE
    /\ portalPhase = "unmounted"
    /\ portalBeforeReload = None

\* useTheme mounts: the first render, with useState(false)
ThemeMount ==
    /\ themePhase = "unmounted"
    /\ themePhase' = "mounted"
    /\ isDark' = FALSE
    /\ UNCHANGED <<documentCookie, prefersDark, rootDark, cookieAtMount, darkBeforeReload>>
    /\ UNCHANGED <<portalItem, portalIsDark, portalRootDark, portalPhase,
                   portalBeforeReload>>
    /\ UNCHANGED <<coreVars, statusVars, storageVars>>

\* the effects of the first render run, in order: the init effect reads the
\* cookie and queues setIsDark; the sync effect runs with the isDark of that
\* render; then the queued state is applied
ThemeMountEffects ==
    /\ themePhase = "mounted"
    /\ LET cookie == getCookie(documentCookie, DARK_MODE_COOKIE)
           next == initIsDark(cookie, prefersDark, isDark)
       IN  /\ cookieAtMount' = IF cookie = None THEN "absent"
                               ELSE CHOOSE x \in cookie : TRUE
           /\ rootDark' = isDark
           /\ documentCookie' = syncCookie(documentCookie, isDark)
           /\ isDark' = next
           /\ themePhase' = IF next # isDark THEN "syncing" ELSE "settled"
    /\ UNCHANGED <<prefersDark, darkBeforeReload>>
    /\ UNCHANGED <<portalItem, portalIsDark, portalRootDark, portalPhase,
                   portalBeforeReload>>
    /\ UNCHANGED <<coreVars, statusVars, storageVars>>

\* the sync effect runs after a render in which isDark changed
ThemeSyncEffect ==
    /\ themePhase = "syncing"
    /\ rootDark' = isDark
    /\ documentCookie' = syncCookie(documentCookie, isDark)
    /\ themePhase' = "settled"
    /\ UNCHANGED <<prefersDark, isDark, cookieAtMount, darkBeforeReload>>
    /\ UNCHANGED <<portalItem, portalIsDark, portalRootDark, portalPhase,
                   portalBeforeReload>>
    /\ UNCHANGED <<coreVars, statusVars, storageVars>>

\* toggle(), lines 62-64
ThemeToggle ==
    /\ themePhase = "settled"
    /\ isDark' = ~isDark
    /\ themePhase' = "syncing"
    /\ cookieAtMount' = "n/a"
    /\ darkBeforeReload' = None
    /\ UNCHANGED <<documentCookie, prefersDark, rootDark>>
    /\ UNCHANGED <<portalItem, portalIsDark, portalRootDark, portalPhase,
                   portalBeforeReload>>
    /\ UNCHANGED <<coreVars, statusVars, storageVars>>

\* the page is reloaded: the cookies stay, the document and the state are new
ThemeReload ==
    /\ themePhase = "settled"
    /\ themePhase' = "unmounted"
    /\ darkBeforeReload' = Some(isDark)
    /\ isDark' = FALSE
    /\ rootDark' = FALSE
    /\ cookieAtMount' = "n/a"
    /\ UNCHANGED <<documentCookie, prefersDark>>
    /\ UNCHANGED <<portalItem, portalIsDark, portalRootDark, portalPhase,
                   portalBeforeReload>>
    /\ UNCHANGED <<coreVars, statusVars, storageVars>>

\* the portal mounts: the first render, with useState(true)
PortalMount ==
    /\ portalPhase = "unmounted"
    /\ portalPhase' = "mounted"
    /\ portalIsDark' = TRUE
    /\ UNCHANGED <<portalItem, portalRootDark, portalBeforeReload>>
    /\ UNCHANGED <<documentCookie, prefersDark, isDark, rootDark, themePhase,
                   cookieAtMount, darkBeforeReload>>
    /\ UNCHANGED <<coreVars, statusVars, storageVars>>

\* the init effect of the portal, lines 7-13
PortalInitEffect ==
    /\ portalPhase = "mounted"
    /\ portalPhase' = "ready"
    /\ portalIsDark' = portalInit(portalItem)
    /\ portalRootDark' = portalInit(portalItem)
    /\ UNCHANGED <<portalItem, portalBeforeReload>>
    /\ UNCHANGED <<documentCookie, prefersDark, isDark, rootDark, themePhase,
                   cookieAtMount, darkBeforeReload>>
    /\ UNCHANGED <<coreVars, statusVars, storageVars>>

\* toggleTheme, lines 15-20
PortalToggle ==
    /\ portalPhase = "ready"
    /\ portalIsDark' = ~portalIsDark
    /\ portalRootDark' = ~portalIsDark
    /\ portalItem' = Some(IF ~portalIsDark THEN "dark" ELSE "light")
    /\ portalBeforeReload' = None
    /\ UNCHANGED portalPhase
    /\ UNCHANGED <<documentCookie, prefersDark, isDark, rootDark, themePhase,
                   cookieAtMount, darkBeforeReload>>
    /\ UNCHANGED <<coreVars, statusVars, storageVars>>

\* the portal page is reloaded: localStorage stays
PortalReload ==
    /\ portalPhase = "ready"
    /\ portalPhase' = "unmounted"
    /\ portalBeforeReload' = Some(portalIsDark)
    /\ portalIsDark' = TRUE
    /\ portalRootDark' = FALSE
    /\ UNCHANGED portalItem
    /\ UNCHANGED <<documentCookie, prefersDark, isDark, rootDark, themePhase,
                   cookieAtMount, darkBeforeReload>>
    /\ UNCHANGED <<coreVars, statusVars, storageVars>>

NextTheme ==
    \/ ThemeMount
    \/ ThemeMountEffects
    \/ ThemeSyncEffect
    \/ ThemeToggle
    \/ ThemeReload
    \/ PortalMount
    \/ PortalInitEffect
    \/ PortalToggle
    \/ PortalReload

\* the user-interface components are not run
UiIdle == StatusIdle /\ StorageIdle /\ ThemeIdle

(***************************************************************************)
(* Specifications                                                          *)
(***************************************************************************)
\* each specification runs one component; the others stay as constructed
InitSpecWS == InitWS /\ InitApi /\ InitJobs /\ UiIdle /\ OrderIdle /\ autoRefresh = FALSE

SpecWS == InitSpecWS /\ [][NextWS]_vars

\* SpecWS with the browser's scheduling: a close event that is due is
\* delivered, a pending timer expires, and a connecting socket opens or fails
FairSpecWS ==
    /\ SpecWS
    /\ WF_vars(\E s \in SocketIds : OnClose(s))
    /\ WF_vars(\E t \in TimerIds : TimerFire(t))
    /\ WF_vars(\E s \in SocketIds : OnOpen(s) \/ OnError(s))

InitSpecApi ==
    InitWS /\ InitApi /\ InitJobs /\ UiIdle /\ OrderIdle /\ reconnect = TRUE /\ autoRefresh = FALSE

SpecApi == InitSpecApi /\ [][NextApi]_vars

InitSpecJobs == InitWS /\ InitApi /\ InitJobs /\ UiIdle /\ OrderIdle /\ reconnect = TRUE

SpecJobs == InitSpecJobs /\ [][NextJobs]_vars

InitSpecOrder ==
    InitWS /\ InitApi /\ InitJobs /\ UiIdle /\ InitOrder /\ reconnect = TRUE /\ autoRefresh = FALSE

SpecOrder == InitSpecOrder /\ [][NextOrder]_vars

InitSpecStatus ==
    /\ InitWS /\ InitApi /\ InitJobs /\ OrderIdle
    /\ reconnect = TRUE /\ autoRefresh = FALSE
    /\ InitStatus /\ StorageIdle /\ ThemeIdle

SpecStatus == InitSpecStatus /\ [][NextStatus]_vars

InitSpecStorage ==
    /\ InitWS /\ InitApi /\ InitJobs /\ OrderIdle
    /\ reconnect = TRUE /\ autoRefresh = FALSE
    /\ StatusIdle /\ InitStorage /\ ThemeIdle

SpecStorage == InitSpecStorage /\ [][NextStorage]_vars

InitSpecTheme ==
    /\ InitWS /\ InitApi /\ InitJobs /\ OrderIdle
    /\ reconnect = TRUE /\ autoRefresh = FALSE
    /\ StatusIdle /\ StorageIdle /\ InitTheme

SpecTheme == InitSpecTheme /\ [][NextTheme]_vars

(***************************************************************************)
(* Claims about useWebSocket, checked under SpecWS                         *)
(***************************************************************************)
LiveSockets == {s \in SocketIds : sockets[s] \in {"CONNECTING", "OPEN"}}

\* C1: after disconnect() (called directly or by the unmount cleanup), and
\* until the caller calls connect() again, no reconnect timer is pending, no
\* socket is open and no timer callback has invoked connect() -- also when the
\* close event of the socket that disconnect() closed is delivered afterwards.
C1_DisconnectIsFinal ==
    torn => /\ timers = {}
            /\ \A s \in SocketIds : sockets[s] # "OPEN"
            /\ lastOp # "timer"

\* C2: at most one socket created by the hook is live (connecting or open) at
\* any time: connect() creates no socket while one is connecting or open.
C2_AtMostOneLiveSocket == Cardinality(LiveSockets) <= 1

\* C7: the reconnect-attempt counter never exceeds maxReconnectAttempts.
C7_CounterBounded == reconnectAttemptsRef <= maxReconnectAttempts

\* C7 witness: a close event has brought the counter to the maximum.
C7_Witness ==
    lastOp = "close" /\ reconnectAttemptsRef = maxReconnectAttempts /\ timers # {}

\* the state after a call of connect(): it returned early on an open socket,
\* the constructor threw, or a new connecting socket is the current one
ConnectWasInvoked ==
    \/ AlreadyOpen(Hook) /\ UNCHANGED <<status, wsRef, sockets>>
    \/ status' = "error" /\ UNCHANGED <<wsRef, sockets>>
    \/ /\ status' = "connecting"
       /\ wsRef' # 0
       /\ sockets[wsRef'] = "CLOSED"
       /\ sockets'[wsRef'] = "CONNECTING"

\* C8: a close event that disconnect() did not ask for arms exactly one timer
\* and adds one to the counter when reconnect is enabled and the counter is
\* below maxReconnectAttempts, and otherwise arms no timer and leaves the
\* counter; an expiring timer invokes connect(); disconnect() cancels the
\* timer that was armed last.
C8_UnplannedCloseArmsOneRetry ==
    [][ /\ lastOp' = "close" =>
            IF reconnect /\ reconnectAttemptsRef < maxReconnectAttempts
            THEN /\ reconnectAttemptsRef' = reconnectAttemptsRef + 1
                 /\ Cardinality(timers' \ timers) = 1
                 /\ timers \subseteq timers'
                 /\ reconnectTimeoutRef' \in timers' \ timers
            ELSE /\ reconnectAttemptsRef' = reconnectAttemptsRef
                 /\ timers' = timers
        /\ lastOp' = "timer" =>
            /\ Cardinality(timers \ timers') = 1
            /\ timers' \subseteq timers
            /\ ConnectWasInvoked
        /\ lastOp' \in {"disconnect", "unmount"} =>
            reconnectTimeoutRef \notin timers'
      ]_vars

\* C8 witness: an unplanned close has armed a retry and counted it.
C8_Witness ==
    /\ lastOp = "close"
    /\ reconnectAttemptsRef = 1
    /\ reconnectTimeoutRef \in timers

\* C9: once maxReconnectAttempts reconnect attempts in a row have failed (the
\* socket a timer callback created closed without opening, with no open event
\* and no connect() of the caller in between), the status is 'disconnected'
\* (or 'error' inside the failing socket's error-then-close task), no timer is
\* pending and no socket is connecting or open.
C9_ExhaustedStaysDisconnected ==
    failedRetries = maxReconnectAttempts =>
        /\ status = "disconnected" \/ (status = "error" /\ closing # 0)
        /\ timers = {}
        /\ LiveSockets = {}

\* C10: the open event sets the counter to zero, and no other operation
\* (disconnect(), connect(), an error event, a close event, a timer, a
\* message, send()) sets a non-zero counter to zero.
C10_CounterResetOnlyOnOpen ==
    [][ /\ lastOp' = "open" => reconnectAttemptsRef' = 0
        /\ lastOp' # "open" => ~(reconnectAttemptsRef # 0 /\ reconnectAttemptsRef' = 0)
      ]_vars

\* C10 witness: an open event has reset the counter after a retry was armed.
C10_Witness ==
    /\ lastOp = "open"
    /\ status = "connected"
    /\ reconnectAttemptsRef = 0
    /\ reconnectTimeoutRef # 0

\* C11: send() puts the payload on the wire only when the status is
\* 'connected'; with any other status (disconnected, connecting, error) it
\* drops the payload and nothing else happens.
C11_SendOnlyWhenConnected ==
    /\ lastOp = "sent" => status = "connected"
    /\ (lastOp \in {"sent", "dropped"} /\ status # "connected") => lastOp = "dropped"

\* C11 witness: send() was called while a socket was still connecting and
\* dropped the payload.
C11_Witness ==
    /\ lastOp = "dropped"
    /\ status = "connecting"
    /\ wsRef # 0

\* C12: the status 'error' is transient: every state whose status is 'error'
\* is followed by the close handling, which sets the status 'disconnected' --
\* also when the status became 'error' because new WebSocket(url) threw inside
\* connect().
C12_ErrorIsTransient == (status = "error") ~> (status = "disconnected")

\* C13: the status follows disconnected -> connecting -> connected ->
\* disconnected; in particular no step of connect(), disconnect() or a socket
\* event makes the status 'connected' from a status other than 'connecting'.
C13_ConnectedOnlyFromConnecting ==
    [][ status' = "connected" => status \in {"connecting", "connected"} ]_vars

\* C14: a message event whose frame does not parse as JSON completes (the
\* catch of the handler takes the SyntaxError), stores the raw frame unchanged
\* as the latest message, and leaves the status, the socket reference, the
\* sockets, the reconnect counter and the timers as they were.
C14_UnparseableFrameIsStoredRaw ==
    [][ (lastOp' = "message" /\ ~IsJSON(lastFrame')) =>
            /\ message' = lastFrame'
            /\ UNCHANGED <<status, wsRef, sockets, reconnectAttemptsRef,
                           reconnectTimeoutRef, timers>>
      ]_vars

\* C14 witness: an unparseable frame has arrived after a parsed one and is the
\* latest message.
C14_Witness ==
    /\ lastOp = "message"
    /\ ~IsJSON(lastFrame)
    /\ message = <<"text", "not json">>
    /\ status = "connected"

\* C25: whenever the status is 'connected' the current socket reference is a
\* socket in the OPEN state (no event of a socket that a later connect()
\* superseded or that disconnect() closed has set the status or cleared the
\* reference).
C25_ConnectedMeansCurrentSocketOpen ==
    status = "connected" => (wsRef # 0 /\ sockets[wsRef] = "OPEN")

(***************************************************************************)
(* Claims about JobList, checked under SpecJobs                            *)
(***************************************************************************)
TerminalStatuses == {"completed", "failed", "cancelled"}

\* the statuses the list shows for a job id (empty: the id is not listed)
StatusesShown(l, id) == {l[i].status : i \in {k \in 1..Len(l) : l[k].id = id}}

\* C3: once the list shows a terminal status (completed, failed, cancelled) for
\* a job id, no later step changes the status shown for that id while the id
\* stays listed.
C3_TerminalStatusIsKept ==
    [][ \A id \in JobIds :
            (/\ StatusesShown(jobs, id) \cap TerminalStatuses # {}
             /\ StatusesShown(jobs', id) # {})
            => StatusesShown(jobs', id) = StatusesShown(jobs, id)
      ]_vars

\* C4: no step removes a listed job id from the list (the component has no
\* deletion event of its own: the delete button only calls the parent); in
\* particular a poll response that omits a listed id leaves it listed.
C4_JobsLeaveOnlyByDeletion ==
    [][ \A id \in JobIds :
            StatusesShown(jobs, id) # {} => StatusesShown(jobs', id) # {}
      ]_vars

\* C16: once the poll loop is cancelled (a change of apiUrl, status, limit,
\* autoRefresh or refreshInterval; unmount), the response of a request that was
\* in flight at the cancellation is discarded: while the component is mounted,
\* its arrival changes neither the displayed jobs nor the error nor loading.
C16_StaleResponseIsDiscarded ==
    [][ (stalePolls' < stalePolls /\ jobsMounted = "yes")
            => UNCHANGED <<jobs, jobsError, jobsLoading>>
      ]_vars

\* C20: the list never holds two records with the same id, whatever the poll
\* responses were -- also when one response lists an id twice.
C20_NoDuplicateIds ==
    \A id \in JobIds : Cardinality({i \in 1..Len(jobs) : jobs[i].id = id}) <= 1

\* the poll response a client received last, if its last update was one
lastPollOf(n) == IF n >= 1 /\ updates[n][1] = "poll" THEN {updates[n][2]} ELSE {}

\* the poll response failed: fetch() rejected, or a non-success status
pollFailed(r) == r.kind = "network" \/ ~r.ok

\* C23: after a successful poll response the displayed list is exactly the
\* items of a body {items: [...], ...}, also when items is empty, and exactly
\* the array when the body is a bare array.
C23_BothBodyFormsAccepted ==
    \A r \in lastPollOf(appliedA) :
        ~pollFailed(r) =>
            /\ r.body[1] = "object" => clientA.jobs = r.body[2].items
            /\ r.body[1] = "array" => clientA.jobs = r.body[2]

\* C23 witness: a body {items: [], total: 0} has replaced a list of one job by
\* the empty list.
C23_Witness ==
    /\ appliedA = 2
    /\ updates[1][1] = "poll" /\ ~pollFailed(updates[1][2])
    /\ Len(itemsOrData(updates[1][2].body)) = 1
    /\ updates[2] = <<"poll", [kind |-> "http", ok |-> TRUE,
                               body |-> <<"object", [items |-> <<>>, total |-> 0]>>]>>
    /\ clientA.jobs = <<>>
    /\ clientA.error = None

\* C28: a failed poll (network failure or non-success status) leaves the list
\* as it was and sets the error message; a successful poll replaces the list
\* by the one of the response and clears the error.
C28_FailedPollKeepsList ==
    [][ \A r \in lastPollOf(appliedA') :
            appliedA' = appliedA + 1 =>
                IF pollFailed(r)
                THEN clientA'.jobs = clientA.jobs /\ clientA'.error # None
                ELSE /\ clientA'.jobs = IF r.body[1] = "object" THEN r.body[2].items
                                        ELSE r.body[2]
                     /\ clientA'.error = None
      ]_vars

\* C28 witness: a poll has failed after a successful one: the list of the
\* first is still the list next to the error; the other client, which
\* received the failure first, has the list and no error.
C28_Witness ==
    /\ appliedA = 2 /\ appliedB = 2
    /\ updates[1][1] = "poll" /\ ~pollFailed(updates[1][2])
    /\ updates[2][1] = "poll" /\ pollFailed(updates[2][2])
    /\ Len(clientA.jobs) = 2
    /\ clientA.error # None
    /\ clientB.jobs = clientA.jobs
    /\ clientB.error = None

\* what a client holds for a job id: the statuses its list shows for the id,
\* and the latest push message when it is a record of that id
recordOf(c, id) ==
    [listed |-> StatusesShown(c.jobs, id),
     pushed |-> IF c.message # Null /\ c.message[1] = "object" /\ c.message[2].id = id
                THEN {c.message[2]} ELSE {}]

\* update u carries a record of job id: a snapshot that lists the id, or a
\* push message that is a record of the id
carries(u, id) == recordOf(applyUpdate(u, NewClient), id) # recordOf(NewClient, id)

\* C15: when two clients have received the same updates (poll snapshots and
\* push messages), one first to last and the other last to first, they hold
\* the same record for every job id that all these updates carry.
C15_ArrivalOrderDoesNotMatter ==
    (appliedA = Len(updates) /\ appliedB = Len(updates)) =>
        \A id \in JobIds :
            (\A i \in 1..Len(updates) : carries(updates[i], id))
            => recordOf(clientA, id) = recordOf(clientB, id)

(***************************************************************************)
(* Claims about the status classification, checked under SpecStatus        *)
(***************************************************************************)
\* the kind a StatusBadge config stands for: its colours
badgeKind(c) == [bg |-> c.bg, text |-> c.text]

\* C21: for an upper-case, lower-case or capitalized spelling of a known
\* status or synonym, getStatusConfig and StatusBadge choose the same kind as
\* for the lower-case spelling.
C21_SpellingDoesNotMatter ==
    toLowerCase(rawStatus) \in KnownStatuses =>
        /\ \A c \in queueConfig : c = getStatusConfig(toLowerCase(rawStatus))
        /\ \A c \in badgeConfig :
                badgeKind(c) = badgeKind(StatusBadge(toLowerCase(rawStatus)))

\* C22: a status string that is no known status or synonym gets a kind of its
\* own: not the kind of pending, queued or any other known status.
C22_UnknownIsItsOwnKind ==
    toLowerCase(rawStatus) \notin KnownStatuses =>
        /\ \A c \in queueConfig : \A k \in KnownStatuses : c # getStatusConfig(k)
        /\ \A c \in badgeConfig :
                \A k \in DOMAIN statusConfig : badgeKind(c) # badgeKind(statusConfig[k])

(***************************************************************************)
(* Claims about useApi, checked under SpecApi                              *)
(***************************************************************************)
\* C18: reset() sets the stored data and error to null and cancels no call:
\* the calls in flight stay in flight, and when one of them settles afterwards
\* it writes as any call does: its result as the data (fetch, post, put) on
\* success, its error as the error on failure.
C18_ResetCancelsNothing ==
    [][ /\ apiOp' = "reset" =>
            /\ data' = None /\ apiError' = None
            /\ inflight' = inflight
        /\ \A x \in apiLast' :
            (apiOp' = "settle" /\ x.call \in atReset /\ x.call \in inflight) =>
                LET o == callOutcome(x.call, x.response)
                IN  IF o.threw THEN apiError' = Some(o.value)
                    ELSE x.call.verb # "del" => data' = o.value
      ]_vars

\* C18 witness: a call that was in flight when reset() ran has settled after
\* it and its result is the stored data.
C18_Witness ==
    /\ apiOp = "settle"
    /\ \E x \in apiLast :
            /\ x.call \in atReset
            /\ x.response.kind = "http" /\ x.response.ok /\ x.response.json
            /\ data = Some(x.response.body)

\* the shape of ApiError: {error, code, message}
isApiError(e) == {"error", "code", "message"} \subseteq DOMAIN e

\* C19: when a call settles with a non-success HTTP status or with a network
\* failure, fetch/post/put resolve to null and del resolves to false, and the
\* stored error is a non-null ApiError {error, code, message}.
C19_FailureStoresApiError ==
    [][ \A x \in apiLast' :
            (/\ apiOp' = "settle" /\ x.call \in inflight
             /\ (x.response.kind = "network" \/ ~x.response.ok))
            => /\ returns(x.call, x.response)
                    = IF x.call.verb = "del" THEN FALSE ELSE None
               /\ \E e \in apiError' : isApiError(e)
      ]_vars

\* C26: whenever no call is in flight, the stored data and the stored error
\* are not both non-null.
C26_DataAndErrorExclusive ==
    inflight = {} => ~(data # None /\ apiError # None)

\* an error whose message names the HTTP status st (`HTTP ${response.status}`)
carriesStatus(e, st) == Len(e.message) >= 2 /\ e.message[2] = st

\* C17: for every verb, when a call settles with a non-success HTTP status the
\* stored error is the parsed body of the response if it parses as JSON, and
\* otherwise a fallback error that carries the HTTP status code.
C17_ErrorBodyOrStatusFallback ==
    [][ \A x \in apiLast' :
            (/\ inflight' # inflight /\ inflight' \subseteq inflight
             /\ x.response.kind = "http" /\ ~x.response.ok)
            => \E e \in apiError' :
                    IF x.response.json THEN e = x.response.body
                    ELSE carriesStatus(e, x.response.status)
      ]_vars

\* C5: when at least two calls were issued and all have settled, the stored
\* result and error are those of the call that settled last, whatever its rank
\* of issue: after a success the stored error is null and, for fetch/post/put,
\* the stored data is that call's result (null for a non-JSON body); after a
\* failure the stored error is that call's error.
C5_StoredReflectsLastSettled ==
    (issued >= 2 /\ inflight = {}) =>
        \A x \in apiLast :
            LET o == callOutcome(x.call, x.response)
            IN  IF o.threw
                THEN apiError = Some(o.value)
                ELSE /\ apiError = None
                     /\ x.call.verb # "del" => data = o.value

\* C6: while the call issued last has not settled, loading is true.
C6_LoadingWhileLatestInFlight ==
    (\E c \in inflight : c.id = issued) => apiLoading

(***************************************************************************)
(* Claims about useLocalStorage, checked under SpecStorage                 *)
(***************************************************************************)
\* C27: once removeValue() has been called and the effects it caused have
\* run, the key is absent from the storage and the hook's value is
\* initialValue.
C27_RemovedKeyStaysAbsent ==
    (lsMounted /\ removed /\ ~writePending)
        => (lsItem = None /\ storedValue = initialValue)

\* values JSON can represent: null, strings, booleans and finite numbers
isJSONValue(x) ==
    \/ x.type \in {"null", "string", "boolean"}
    \/ x.type = "number" /\ x.v # "NaN"

C30_SettledThemeIsConsistent ==
    themePhase = "settled" =>
        /\ cookieAtMount = "absent" => isDark = prefersDark
        /\ cookieAtMount \notin {"absent", "n/a"} => isDark = (cookieAtMount = "dark")
        /\ getCookie(documentCookie, DARK_MODE_COOKIE)
             = Some(IF isDark THEN "dark" ELSE "light")
        /\ rootDark = isDark

\* no cookie at mount on a system that prefers dark: dark once settled
C30_Witness ==
    /\ themePhase = "settled"
    /\ cookieAtMount = "absent"
    /\ prefersDark
    /\ isDark
    /\ rootDark
    /\ getCookie(documentCookie, DARK_MODE_COOKIE) = Some("dark")

=============================================================================
